---------------------------- MODULE Spec2Model ----------------------------
(***************************************************************************)
(* Model of the Chrome AI session layer of the extension:                  *)
(*   - utils/session-manager.ts   (AISessionManager: the session pool)     *)
(*   - utils/text-chunker         (splitIntoChunks, estimateTokens)        *)
(*   - api/chrome-ai/articles/simplify-article (simplifyArticle)           *)
(*   - utils/test-chrome-ai.ts    (testChromeAI)                           *)
(*                                                                         *)
(* A text is modelled by its length and by the positions of the characters *)
(* the code looks at: '.', '\n' and ' '.  Every other position holds a     *)
(* character that is neither a break character nor whitespace.             *)
(***************************************************************************)
EXTENDS Integers, Sequences, FiniteSets, TLC

Min(a, b) == IF a < b THEN a ELSE b
Max(a, b) == IF a > b THEN a ELSE b
SetMax(S) == CHOOSE x \in S : \A y \in S : y <= x

(***************************************************************************)
(* Strings                                                                 *)
(***************************************************************************)
Text(n, d, l, s) == [len |-> n, dot |-> d, nl |-> l, sp |-> s]
Plain(n) == Text(n, {}, {}, {})

Shift(S, a, b) == {p - a : p \in {q \in S : a <= q /\ q < b}}

\* String.prototype.substring(a, b): both indices are clamped to [0, length]
\* and swapped when a > b.
substring(t, a, b) ==
  LET ca == Max(0, Min(a, t.len))
      cb == Max(0, Min(b, t.len))
      lo == Min(ca, cb)
      hi == Max(ca, cb)
  IN  Text(hi - lo, Shift(t.dot, lo, hi), Shift(t.nl, lo, hi), Shift(t.sp, lo, hi))

\* String.prototype.lastIndexOf(c) for a one-character c whose positions are S.
lastIndexOf(S) == IF S = {} THEN -1 ELSE SetMax(S)

Whitespace(t) == t.nl \cup t.sp

RECURSIVE TrimStart(_, _)
TrimStart(t, a) ==
  IF a < t.len /\ a \in Whitespace(t) THEN TrimStart(t, a + 1) ELSE a

RECURSIVE TrimEnd(_, _)
TrimEnd(t, b) ==
  IF b > 0 /\ (b - 1) \in Whitespace(t) THEN TrimEnd(t, b - 1) ELSE b

\* String.prototype.trim()
trim(t) ==
  LET a == TrimStart(t, 0)
      b == TrimEnd(t, t.len)
  IN  IF a >= b THEN Plain(0) ELSE substring(t, a, b)

\* a + sep + b, where sep is "\n\n"
JoinTwo(a, b) ==
  LET off == a.len + 2
  IN  Text(a.len + 2 + b.len,
           a.dot \cup {p + off : p \in b.dot},
           a.nl \cup {a.len, a.len + 1} \cup {p + off : p \in b.nl},
           a.sp \cup {p + off : p \in b.sp})

\* Array.prototype.join('\n\n')
RECURSIVE join(_)
join(ss) ==
  IF Len(ss) = 0 THEN Plain(0)
  ELSE IF Len(ss) = 1 THEN ss[1]
  ELSE JoinTwo(join(SubSeq(ss, 1, Len(ss) - 1)), ss[Len(ss)])

(***************************************************************************)
(* text-chunker                                                            *)
(***************************************************************************)
DEFAULT_CHUNK_SIZE == 4000
DEFAULT_OVERLAP == 200

\* options?.<field> ?? d
OrDefault(o, field, d) == IF field \in DOMAIN o THEN o[field] ELSE d

\* Math.ceil(text.length / 4)
estimateTokens(t) == (t.len + 3) \div 4

\* breakPoint > maxSize * 0.5
PastHalf(breakPoint, maxSize) == 2 * breakPoint > maxSize

\* SplitStep with the overlap added to the end of the window instead of taken
\* off the next start.
SplitStepOverlapAhead(t, maxSize, overlap, startIndex) ==
  LET endIndex == Min(startIndex + maxSize, t.len)
      chunk == substring(t, startIndex, endIndex + overlap)
  IN  [chunk |-> trim(chunk),
       window |-> <<startIndex, endIndex + overlap>>,
       next |-> endIndex]

\* SplitStep whose next window starts one character after the cut.
SplitStepSkipping(t, maxSize, overlap, startIndex) ==
  LET endIndex == Min(startIndex + maxSize, t.len)
      chunk == substring(t, startIndex, endIndex)
  IN  [chunk |-> trim(chunk),
       window |-> <<startIndex, endIndex>>,
       next |-> endIndex + 1]

\* One iteration of the while loop of splitIntoChunks: the chunk pushed and
\* the startIndex the next iteration begins with.
SplitStep(t, maxSize, overlap, startIndex) ==
  LET endIndex == Min(startIndex + maxSize, t.len)
      chunk == substring(t, startIndex, endIndex)
      lastPeriod == lastIndexOf(chunk.dot)
      lastNewline == lastIndexOf(chunk.nl)
      lastSpace == lastIndexOf(chunk.sp)
      breakPoint == Max(lastPeriod, Max(lastNewline, lastSpace))
  IN  IF endIndex < t.len
      THEN IF PastHalf(breakPoint, maxSize)
           THEN [chunk |-> trim(substring(t, startIndex, startIndex + breakPoint + 1)),
                 window |-> <<startIndex, startIndex + breakPoint + 1>>,
                 next |-> startIndex + breakPoint + 1 - overlap]
           ELSE [chunk |-> trim(chunk),
                 window |-> <<startIndex, endIndex>>,
                 next |-> endIndex - overlap]
      ELSE [chunk |-> trim(chunk),
            window |-> <<startIndex, endIndex>>,
            next |-> endIndex]

RECURSIVE SplitFrom(_, _, _, _)
SplitFrom(t, maxSize, overlap, startIndex) ==
  IF startIndex < t.len
  THEN LET s == SplitStep(t, maxSize, overlap, startIndex)
       IN  <<s.chunk>> \o SplitFrom(t, maxSize, overlap, s.next)
  ELSE <<>>

splitIntoChunks(t, o) ==
  LET maxSize == OrDefault(o, "maxChunkSize", DEFAULT_CHUNK_SIZE)
      overlap == OrDefault(o, "overlap", DEFAULT_OVERLAP)
  IN  IF t.len <= maxSize THEN <<t>> ELSE SplitFrom(t, maxSize, overlap, 0)

(***************************************************************************)
(* splitIntoChunks as a state machine: one action per loop iteration.      *)
(***************************************************************************)
VARIABLES text, options, startIndex, chunks, windows, splitPc

chunkVars == <<text, options, startIndex, chunks, windows, splitPc>>

\* The clock (Date.now(), in ms) and the number of times it was advanced.
VARIABLES now, ticks

clockVars == <<now, ticks>>

\* One simplifyArticle call (its locals), and the summarize calls the host saw.
VARIABLES sa, hostCalls

simplifyVars == <<sa, hostCalls>>

\* The session manager (its fields, one frame per getSession call, the frame
\* of destroyAll), the frame of testChromeAI, and the host: the sessions it
\* created, the create calls it received and those nobody waits for any more,
\* whether its API objects exist, and how often it may still fail.
VARIABLES sessions, lastCreationTime, gs, da, ds, tc, hostSessions, createCalls,
          lateCreates, apiPresent, faults

poolVars ==
  <<sessions, lastCreationTime, gs, da, ds, tc, hostSessions, createCalls, lateCreates,
    apiPresent, faults>>

\* The offscreen helper: its module variable creating (0 for null, else the
\* number of a promise), one frame per runOffscreenAI call, and the host: the
\* promises chrome.offscreen.createDocument returned, the offscreen documents
\* that exist, and the summarize calls made in the offscreen document.
VARIABLES creating, ro, createDocumentCalls, documents, offscreenCalls, messages

offscreenVars == <<creating, ro, createDocumentCalls, documents, offscreenCalls, messages>>

vars == <<chunkVars, clockVars, simplifyVars, poolVars, offscreenVars>>

MaxBreaks == 2
MaxChunks == 12
MaxTicks == 4
MaxFaults == 1

NoSession == <<>>

\* The options simplifyArticle passes, and no options at all (the defaults).
SimplifyOptions == [maxChunkSize |-> 16000, overlap |-> 200]
NoOptions == <<>>
ChunkOptionSet == {SimplifyOptions, NoOptions}

MaxSizeOf(o) == OrDefault(o, "maxChunkSize", DEFAULT_CHUNK_SIZE)
OverlapOf(o) == OrDefault(o, "overlap", DEFAULT_OVERLAP)

\* Input lengths around the chunk size m, up to 3.5 x m.
ChunkLens(m) == {m, m + 1, 2 * m, (7 * m) \div 2}

\* Where the inputs may hold a '.', a '\n' or a ' '.
BreakCandidates(m, n) ==
  {p \in {0, 1, m \div 2, m \div 2 + 1, m - 2, m - 1, m + m \div 2, n - 2, n - 1} : p < n}

Marked(C) ==
  {f \in [C -> {"x", ".", "\n", " "}] : Cardinality({p \in C : f[p] # "x"}) <= MaxBreaks}

TextsOf(m) ==
  {Text(n, {p \in DOMAIN f : f[p] = "."},
           {p \in DOMAIN f : f[p] = "\n"},
           {p \in DOMAIN f : f[p] = " "}) :
     <<n, f>> \in UNION {{<<n, f>> : f \in Marked(BreakCandidates(m, n))} : n \in ChunkLens(m)}}

SplitCall ==
  /\ splitPc = "call"
  /\ IF text.len <= MaxSizeOf(options)
     THEN /\ chunks' = <<text>>
          /\ splitPc' = "done"
          /\ UNCHANGED <<startIndex, windows>>
     ELSE /\ chunks' = <<>>
          /\ windows' = <<>>
          /\ startIndex' = 0
          /\ splitPc' = "loop"
  /\ UNCHANGED <<text, options, clockVars, simplifyVars, poolVars, offscreenVars>>

SplitLoop ==
  /\ splitPc = "loop"
  /\ startIndex < text.len
  /\ Len(chunks) < MaxChunks
  /\ LET s == SplitStep(text, MaxSizeOf(options), OverlapOf(options), startIndex)
     IN  /\ chunks' = Append(chunks, s.chunk)
         /\ windows' = Append(windows, s.window)
         /\ startIndex' = s.next
  /\ UNCHANGED <<text, options, splitPc, clockVars, simplifyVars, poolVars, offscreenVars>>

SplitReturn ==
  /\ splitPc = "loop"
  /\ ~(startIndex < text.len)
  /\ splitPc' = "done"
  /\ UNCHANGED <<text, options, startIndex, chunks, windows, clockVars, simplifyVars, poolVars, offscreenVars>>

ChunkIdle ==
  /\ text = Plain(0)
  /\ options = SimplifyOptions
  /\ startIndex = 0
  /\ chunks = <<>>
  /\ windows = <<>>
  /\ splitPc = "idle"

\* Date.now() when the extension starts: long after time 0, where
\* lastCreationTime starts.
StartTime == 1000000

ClockIdle == now = StartTime /\ ticks = MaxTicks

PoolIdle ==
  /\ sessions = <<>>
  /\ lastCreationTime = 0
  /\ gs = <<>>
  /\ da = [pc |-> "off"]
  /\ ds = [pc |-> "off"]
  /\ tc = [pc |-> "off"]
  /\ hostSessions = <<>>
  /\ createCalls = <<>>
  /\ lateCreates = {}
  /\ apiPresent = TRUE
  /\ faults = 0

NoCall == [pc |-> "idle"]

SimplifyIdle == sa = NoCall /\ hostCalls = <<>>

OffscreenIdle ==
  /\ creating = 0
  /\ ro = <<>>
  /\ createDocumentCalls = <<>>
  /\ documents = 0
  /\ offscreenCalls = <<>>
  /\ messages = <<>>

InitChunk ==
  /\ OffscreenIdle
  /\ ClockIdle
  /\ SimplifyIdle
  /\ PoolIdle
  /\ options \in ChunkOptionSet
  /\ text \in TextsOf(MaxSizeOf(options))
  /\ startIndex = 0
  /\ chunks = <<>>
  /\ windows = <<>>
  /\ splitPc = "call"

NextChunk == SplitCall \/ SplitLoop \/ SplitReturn

SpecChunk == InitChunk /\ [][NextChunk]_vars

\* splitIntoChunks on short texts, with every overlap below the chunk size
SmallSizes == {1, 6}
SmallOptionSet ==
  UNION {{[maxChunkSize |-> m, overlap |-> v] : v \in 0..(m - 1)} : m \in SmallSizes}

\* The texts of length n with at most MaxBreaks break characters, anywhere.
MarkedAnywhere(n) ==
  UNION {{Text(n, {q \in S : f[q] = "."}, {q \in S : f[q] = "\n"}, {q \in S : f[q] = " "}) :
            f \in [S -> {".", "\n", " "}]} :
         S \in {T \in SUBSET (0..(n - 1)) : Cardinality(T) <= MaxBreaks}}

SmallTexts(m) == UNION {MarkedAnywhere(n) : n \in {m, m + 1, 2 * m, 2 * m + 1}}

InitSplit ==
  /\ OffscreenIdle
  /\ ClockIdle
  /\ SimplifyIdle
  /\ PoolIdle
  /\ options \in SmallOptionSet
  /\ text \in SmallTexts(MaxSizeOf(options))
  /\ startIndex = 0
  /\ chunks = <<>>
  /\ windows = <<>>
  /\ splitPc = "call"

SpecSplit == InitSplit /\ [][NextChunk]_vars

\* C21: for a text longer than maxChunkSize and 0 <= overlap < maxChunkSize / 2
\* the chunks are, before trimming, windows of the text at strictly
\* increasing start offsets, each starting no later than the end of the one
\* before, the first at 0 and the last ending with the text: the chunks are
\* in the order of the text and every character lies in a window.
C21_WindowsCoverInOrder ==
  (text.len > MaxSizeOf(options) /\ 2 * OverlapOf(options) < MaxSizeOf(options)
     /\ splitPc \in {"loop", "done"}) =>
     /\ Len(chunks) = Len(windows)
     /\ \A i \in 1..Len(windows) :
           /\ 0 <= windows[i][1] /\ windows[i][1] < windows[i][2]
           /\ windows[i][2] <= text.len
           /\ chunks[i] = trim(substring(text, windows[i][1], windows[i][2]))
           /\ i = 1 => windows[i][1] = 0
           /\ i > 1 => /\ windows[i][1] > windows[i - 1][1]
                       /\ windows[i][1] <= windows[i - 1][2]
     /\ splitPc = "done" => /\ Len(windows) >= 2
                            /\ windows[Len(windows)][2] = text.len

C21_Witness ==
  /\ splitPc = "done"
  /\ MaxSizeOf(options) = 6 /\ OverlapOf(options) = 2
  /\ text.len = 13
  /\ windows = <<(<<0, 5>>), (<<3, 9>>), (<<7, 13>>)>>

\* C27: with maxChunkSize >= 1 and 0 <= overlap < maxChunkSize the start
\* index of the window grows with every iteration of the loop, so the loop
\* ends after at most text.length iterations.
C27_StartIndexIncreases ==
  [][(splitPc = "loop" /\ MaxSizeOf(options) >= 1 /\ OverlapOf(options) >= 0
        /\ OverlapOf(options) < MaxSizeOf(options) /\ Len(chunks') > Len(chunks))
       => startIndex' > startIndex]_vars

CeilDiv(a, b) == (a + b - 1) \div b

\* C8: with the options simplifyArticle passes (maxChunkSize 16000, overlap
\* 200) and a text longer than maxChunkSize, every chunk of splitIntoChunks
\* is at most maxChunkSize long and there are at least
\* ceil(text.length / maxChunkSize) of them; a text of 3.5 x maxChunkSize
\* gives at least 4 chunks.
C8_ChunkBounds ==
  (options = SimplifyOptions /\ text.len > 16000) =>
     /\ \A i \in 1..Len(chunks) : chunks[i].len <= 16000
     /\ splitPc = "done" =>
          /\ Len(chunks) >= CeilDiv(text.len, 16000)
          /\ (text.len = 56000 => Len(chunks) >= 4)
          /\ chunks = splitIntoChunks(text, options)

C8_Witness ==
  /\ options = SimplifyOptions
  /\ text.len = 56000
  /\ splitPc = "done"
  /\ Len(chunks) >= 4
  /\ \E i \in 1..Len(chunks) : chunks[i].len < 16000 /\ chunks[i].len > 8000

(***************************************************************************)
(* AISessionManager                                                        *)
(***************************************************************************)
MIN_CREATION_INTERVAL == 1000
MAX_SESSIONS == 3
SESSION_TIMEOUT == 300000
DESTROY_DELAY == 200
RETRIES == 2
RETRY_DELAY == 2000
AVAILABILITY_TIMEOUT == 5000
CREATE_TIMEOUT == 15000

NumKeys == 5

\* A session key stands for `${config.type}-${JSON.stringify(config.options)}`.
Keys == 1..NumKeys
Callers == DOMAIN gs

TypeOf(k) == IF k % 2 = 1 THEN "summarizer" ELSE "languageModel"

\* this.sessions is a Map: a sequence of entries in insertion order.
Has(m, k) == \E j \in 1..Len(m) : m[j].key = k
Get(m, k) == m[CHOOSE j \in 1..Len(m) : m[j].key = k]
Set(m, e) ==
  IF Has(m, e.key)
  THEN [j \in 1..Len(m) |-> IF m[j].key = e.key THEN e ELSE m[j]]
  ELSE Append(m, e)
Delete(m, k) == SelectSeq(m, LAMBDA e : e.key # k)

\* this.sessions.get(key)!, read before the delay; .session of it after the delay
SessionOf(m, k) == IF Has(m, k) THEN Get(m, k).session ELSE NoSession

\* cleanup(): the keys whose session was last used more than SESSION_TIMEOUT ago
ExpiredKeys(m, t) ==
  LET old == SelectSeq(m, LAMBDA e : t - e.lastUsedAt > SESSION_TIMEOUT)
  IN  [j \in 1..Len(old) |-> old[j].key]

ExpiredSessions(m, t) == {SessionOf(m, ExpiredKeys(m, t)[j]) : j \in 1..Len(ExpiredKeys(m, t))}

\* destroyOldestSession() with the comparison turned round.
OldestKeyNewest(m) ==
  LET j == CHOOSE j \in 1..Len(m) :
             \A l \in 1..Len(m) :
                \/ m[l].lastUsedAt < m[j].lastUsedAt
                \/ m[l].lastUsedAt = m[j].lastUsedAt /\ l >= j
  IN  m[j].key

\* destroyOldestSession(): the first key, in Map order, with the least lastUsedAt
OldestKey(m) ==
  LET j == CHOOSE j \in 1..Len(m) :
             \A l \in 1..Len(m) :
                \/ m[l].lastUsedAt > m[j].lastUsedAt
                \/ m[l].lastUsedAt = m[j].lastUsedAt /\ l >= j
  IN  m[j].key

\* The host names the session that the create call of attempt i of caller p
\* made <<p, i>>.
Handle(f) == <<f.id, f.i>>

NewHostSession(by, k) ==
  [by |-> by, key |-> k, destroyed |-> FALSE, destroyCalls |-> 0, destroyedBy |-> {},
   busyAtDestroy |-> FALSE]

HostCreate(hs, h, by, k) ==
  [x \in DOMAIN hs \cup {h} |-> IF x = h THEN NewHostSession(by, k) ELSE hs[x]]

\* A borrower's prompt or summarize call on session h has not settled.
Busy(h) == \E p \in Callers : gs[p].pc = "prompt" /\ gs[p].session = h

\* session.destroy() on the host.  The host records who called and whether
\* the session was in use; destroy on `undefined` throws before reaching the
\* host.
HostDestroy(hs, h, by, throws) ==
  IF h = NoSession THEN hs
  ELSE [hs EXCEPT ![h] = [@ EXCEPT !.destroyCalls = @ + 1,
                                   !.destroyedBy = @ \cup {by},
                                   !.destroyed = @ \/ ~throws,
                                   !.busyAtDestroy = @ \/ Busy(h)]]

\* The host may fail a call while faults are left.
FaultChoices == IF faults > 0 THEN {FALSE, TRUE} ELSE {FALSE}
Count(failed) == IF failed THEN 1 ELSE 0

\* The frame of one getSession call; a local that is dead holds its initial value.
\* `expired` remembers the sessions cleanup() found expired when the call began.
Idle(p) ==
  [id |-> p, pc |-> "idle", key |-> 0, i |-> 0, wakeAt |-> 0, toDestroy |-> <<>>,
   victimKey |-> 0, victim |-> NoSession, session |-> NoSession, error |-> "",
   expired |-> {}]

At(f, pc) == [Idle(f.id) EXCEPT !.pc = pc, !.key = f.key, !.expired = f.expired]

Wait(f, pc, delay) == [At(f, pc) EXCEPT !.i = f.i, !.wakeAt = now + delay]

\* catch in create*WithRetry that allows one retry more.
RetryOrThrowOnceMore(f, err) ==
  IF f.i = RETRIES + 1
  THEN [At(f, "failed") EXCEPT !.error = err]
  ELSE Wait(f, "retryWait", RETRY_DELAY)

\* catch in create*WithRetry: rethrow on the last attempt, else wait and retry
RetryOrThrow(f, err) ==
  IF f.i = RETRIES
  THEN [At(f, "failed") EXCEPT !.error = err]
  ELSE Wait(f, "retryWait", RETRY_DELAY)

\* One attempt of create*WithRetry, up to the await of availability()
Attempt(f) ==
  IF ~apiPresent
  THEN RetryOrThrow(f, "API not available")
  ELSE Wait(f, "availWait", AVAILABILITY_TIMEOUT)

\* The rate limit of getSession, up to its next await
RateLimit(f) ==
  LET timeSinceLastCreation == now - lastCreationTime
  IN  IF timeSinceLastCreation < MIN_CREATION_INTERVAL
      THEN Wait(f, "rateWait", MIN_CREATION_INTERVAL - timeSinceLastCreation)
      ELSE Attempt([f EXCEPT !.i = 0])

\* cleanup() that destroys nothing.
CleanupLoopNoSweep(f, m) == At(f, "afterCleanup")

\* cleanup() from the head of its destroy loop, up to its next await
CleanupLoop(f, m) ==
  IF Len(f.toDestroy) > 0
  THEN [Wait(f, "cleanupWait", DESTROY_DELAY) EXCEPT
          !.toDestroy = f.toDestroy,
          !.victimKey = Head(f.toDestroy),
          !.victim = SessionOf(m, Head(f.toDestroy))]
  ELSE At(f, "afterCleanup")

\* destroyOldestSession() up to its await
EvictOldest(f, m) ==
  [Wait(f, "evictWait", DESTROY_DELAY) EXCEPT
     !.victimKey = OldestKey(m),
     !.victim = SessionOf(m, OldestKey(m))]

\* Callers are interchangeable and so are keys: caller p calls after caller
\* p - 1, and a call asks for a key asked for before or for the next new one.
KeysAsked ==
  {gs[p].key : p \in {q \in Callers : gs[q].pc # "idle"}}
    \cup {hostSessions[h].key : h \in DOMAIN hostSessions}
NextKeys == {k \in Keys : k = 1 \/ (k - 1) \in KeysAsked}

PoolRest == <<chunkVars, clockVars, simplifyVars, offscreenVars>>

\* The hit of getSession that leaves useCount alone.
ReuseUncounted(existing) == [existing EXCEPT !.lastUsedAt = now]

\* The hit of getSession: existing.lastUsedAt = Date.now(); existing.useCount++
Reuse(existing) == [existing EXCEPT !.lastUsedAt = now, !.useCount = @ + 1]

\* getSession(config), up to its first await; a hit returns at once.
GetSession(p) ==
  /\ gs[p].pc = "idle"
  /\ IF p = 1 THEN TRUE ELSE gs[p - 1].pc # "idle"
  /\ \E k \in NextKeys :
       IF Has(sessions, k)
       THEN LET existing == Get(sessions, k)
            IN  /\ sessions' = Set(sessions, Reuse(existing))
                /\ gs' = [gs EXCEPT ![p] = [At([@ EXCEPT !.key = k], "got") EXCEPT
                                              !.session = existing.session]]
       ELSE /\ gs' = [gs EXCEPT ![p] =
                        CleanupLoop([@ EXCEPT !.key = k,
                                              !.toDestroy = ExpiredKeys(sessions, now),
                                              !.expired = ExpiredSessions(sessions, now)],
                                    sessions)]
            /\ UNCHANGED sessions
  /\ UNCHANGED <<lastCreationTime, da, ds, hostSessions, createCalls, lateCreates, tc, apiPresent, faults>>
  /\ UNCHANGED PoolRest

\* cleanup(): the delay is over; destroy the expired session and delete its key.
CleanupDestroy(p) ==
  /\ gs[p].pc = "cleanupWait"
  /\ now >= gs[p].wakeAt
  /\ \E throws \in FaultChoices :
       /\ hostSessions' = HostDestroy(hostSessions, gs[p].victim, "sessionManager", throws)
       /\ faults' = faults - Count(throws)
  /\ sessions' = Delete(sessions, gs[p].victimKey)
  /\ gs' = [gs EXCEPT ![p] = CleanupLoop([@ EXCEPT !.toDestroy = Tail(@)], sessions')]
  /\ UNCHANGED <<lastCreationTime, da, ds, createCalls, lateCreates, tc, apiPresent>>
  /\ UNCHANGED PoolRest

\* getSession after `await this.cleanup()`: the limit, then the rate limit.
AfterCleanup(p) ==
  /\ gs[p].pc = "afterCleanup"
  /\ IF Len(sessions) >= MAX_SESSIONS
     THEN gs' = [gs EXCEPT ![p] = EvictOldest(@, sessions)]
     ELSE gs' = [gs EXCEPT ![p] = RateLimit(@)]
  /\ UNCHANGED <<sessions, lastCreationTime, da, ds, hostSessions, createCalls, lateCreates, tc, apiPresent, faults>>
  /\ UNCHANGED PoolRest

\* destroyOldestSession(): the delay is over; destroy and delete.
EvictDestroy(p) ==
  /\ gs[p].pc = "evictWait"
  /\ now >= gs[p].wakeAt
  /\ \E throws \in FaultChoices :
       /\ hostSessions' = HostDestroy(hostSessions, gs[p].victim, "sessionManager", throws)
       /\ faults' = faults - Count(throws)
  /\ sessions' = Delete(sessions, gs[p].victimKey)
  /\ gs' = [gs EXCEPT ![p] = At(@, "afterEvict")]
  /\ UNCHANGED <<lastCreationTime, da, ds, createCalls, lateCreates, tc, apiPresent>>
  /\ UNCHANGED PoolRest

\* getSession after `await this.destroyOldestSession()`
AfterEvict(p) ==
  /\ gs[p].pc = "afterEvict"
  /\ gs' = [gs EXCEPT ![p] = RateLimit(@)]
  /\ UNCHANGED <<sessions, lastCreationTime, da, ds, hostSessions, createCalls, lateCreates, tc, apiPresent, faults>>
  /\ UNCHANGED PoolRest

\* The rate-limit wait is over: on to the creation (no second look at the clock).
RateWaitOver(p) ==
  /\ gs[p].pc = "rateWait"
  /\ now >= gs[p].wakeAt
  /\ gs' = [gs EXCEPT ![p] = Attempt([@ EXCEPT !.i = 0])]
  /\ UNCHANGED <<sessions, lastCreationTime, da, ds, hostSessions, createCalls, lateCreates, tc, apiPresent, faults>>
  /\ UNCHANGED PoolRest

\* The host's create is called: Summarizer.create or LanguageModel.create.
CallCreate(calls, by) == Append(calls, [by |-> by, start |-> now])

\* availability() answers: create is called if the answer is 'available'.
AvailabilityAnswered(p) ==
  /\ gs[p].pc = "availWait"
  /\ \E unavailable \in FaultChoices :
       /\ faults' = faults - Count(unavailable)
       /\ IF unavailable
          THEN /\ gs' = [gs EXCEPT ![p] = RetryOrThrow(@, "not available")]
               /\ UNCHANGED createCalls
          ELSE /\ createCalls' = CallCreate(createCalls, "sessionManager")
               /\ gs' = [gs EXCEPT ![p] = Wait(@, "createWait", CREATE_TIMEOUT)]
  /\ UNCHANGED <<sessions, lastCreationTime, da, ds, hostSessions, lateCreates, tc, apiPresent>>
  /\ UNCHANGED PoolRest

\* The 5 s timer wins the race against availability().
AvailabilityTimeout(p) ==
  /\ gs[p].pc = "availWait"
  /\ now >= gs[p].wakeAt
  /\ gs' = [gs EXCEPT ![p] = RetryOrThrow(@, "Availability check timeout")]
  /\ UNCHANGED <<sessions, lastCreationTime, da, ds, hostSessions, createCalls, lateCreates, tc, apiPresent, faults>>
  /\ UNCHANGED PoolRest

\* What getSession does with the session create() resolved to.
Store(m, k, h) ==
  Set(m, [key |-> k, session |-> h, type |-> TypeOf(k), createdAt |-> now,
          lastUsedAt |-> now, useCount |-> 1])

\* create() resolves: getSession records the time, stores the session, returns it.
Created(p) ==
  /\ gs[p].pc = "createWait"
  /\ hostSessions' = HostCreate(hostSessions, Handle(gs[p]), "sessionManager", gs[p].key)
  /\ lastCreationTime' = now
  /\ sessions' = Store(sessions, gs[p].key, Handle(gs[p]))
  /\ gs' = [gs EXCEPT ![p] = [At(@, "got") EXCEPT !.session = Handle(gs[p])]]
  /\ UNCHANGED <<da, ds, createCalls, lateCreates, tc, apiPresent, faults>>
  /\ UNCHANGED PoolRest

\* create() rejects.
CreateFailed(p) ==
  /\ gs[p].pc = "createWait"
  /\ faults > 0
  /\ faults' = faults - 1
  /\ gs' = [gs EXCEPT ![p] = RetryOrThrow(@, "create failed")]
  /\ UNCHANGED <<sessions, lastCreationTime, da, ds, hostSessions, createCalls, lateCreates, tc, apiPresent>>
  /\ UNCHANGED PoolRest

\* The 15 s timer wins the race against create(); the host call stays pending
\* with nobody waiting for it.
CreateTimeout(p) ==
  /\ gs[p].pc = "createWait"
  /\ now >= gs[p].wakeAt
  /\ lateCreates' = lateCreates \cup {[handle |-> Handle(gs[p]), key |-> gs[p].key,
                                       by |-> "sessionManager"]}
  /\ gs' = [gs EXCEPT ![p] = RetryOrThrow(@, "Session creation timeout")]
  /\ UNCHANGED <<sessions, lastCreationTime, da, ds, hostSessions, createCalls, tc, apiPresent, faults>>
  /\ UNCHANGED PoolRest

\* A create() that lost the race resolves: the host has one more session.
LateCreated ==
  /\ \E c \in lateCreates :
       /\ lateCreates' = lateCreates \ {c}
       /\ hostSessions' = HostCreate(hostSessions, c.handle, c.by, c.key)
  /\ UNCHANGED <<sessions, lastCreationTime, gs, da, ds, createCalls, tc, apiPresent, faults>>
  /\ UNCHANGED PoolRest

\* The 2 s backoff is over: the next attempt.
Retry(p) ==
  /\ gs[p].pc = "retryWait"
  /\ now >= gs[p].wakeAt
  /\ gs' = [gs EXCEPT ![p] = Attempt([@ EXCEPT !.i = @ + 1])]
  /\ UNCHANGED <<sessions, lastCreationTime, da, ds, hostSessions, createCalls, lateCreates, tc, apiPresent, faults>>
  /\ UNCHANGED PoolRest

\* The borrower (generateArticleFromContent, createChatCompletion,
\* simplifyArticle) calls prompt or summarize on the session it was given.
Borrow(p) ==
  /\ gs[p].pc = "got"
  /\ gs' = [gs EXCEPT ![p] = [@ EXCEPT !.pc = "prompt"]]
  /\ UNCHANGED <<sessions, lastCreationTime, da, ds, hostSessions, createCalls, lateCreates, tc, apiPresent, faults>>
  /\ UNCHANGED PoolRest

\* The host settles the borrower's call.
PromptSettled(p) ==
  /\ gs[p].pc = "prompt"
  /\ gs' = [gs EXCEPT ![p] = At(@, "done")]
  /\ UNCHANGED <<sessions, lastCreationTime, da, ds, hostSessions, createCalls, lateCreates, tc, apiPresent, faults>>
  /\ UNCHANGED PoolRest

\* destroyAll() from the head of its loop, up to its next await or its return
DestroyAllLoop(keys, m) ==
  IF Len(keys) > 0
  THEN [pc |-> "wait", keys |-> keys, victim |-> SessionOf(m, Head(keys)),
        wakeAt |-> now + DESTROY_DELAY]
  ELSE [pc |-> "done", keys |-> <<>>, victim |-> NoSession, wakeAt |-> 0]

\* this.sessions.clear(), once the loop of destroyAll is over
ClearWhenDone(frame, m) == IF frame.pc = "done" THEN <<>> ELSE m

\* destroyAll(), called by the onSuspend listener, up to its first await
DestroyAll ==
  /\ da.pc = "idle"
  /\ da' = DestroyAllLoop([j \in 1..Len(sessions) |-> sessions[j].key], sessions)
  /\ sessions' = ClearWhenDone(da', sessions)
  /\ UNCHANGED <<lastCreationTime, gs, ds, hostSessions, createCalls, lateCreates, tc, apiPresent, faults>>
  /\ UNCHANGED PoolRest

\* destroyAll letting the error of a destroy that throws escape.
AfterDestroyRethrow(f, m, throws) ==
  IF throws
  THEN [pc |-> "rejected", keys |-> <<>>, victim |-> NoSession, wakeAt |-> 0]
  ELSE DestroyAllLoop(Tail(f.keys), m)

\* destroyAll after session.session.destroy(): the catch block logs what was
\* thrown, and the loop goes on.
AfterDestroy(f, m, throws) == DestroyAllLoop(Tail(f.keys), m)

\* destroyAll(): the delay is over; destroy the session, go on to the next key.
DestroyAllDestroy ==
  /\ da.pc = "wait"
  /\ now >= da.wakeAt
  /\ \E throws \in FaultChoices :
       /\ hostSessions' = HostDestroy(hostSessions, da.victim, "sessionManager", throws)
       /\ faults' = faults - Count(throws)
       /\ da' = AfterDestroy(da, sessions, throws)
  /\ sessions' = ClearWhenDone(da', sessions)
  /\ UNCHANGED <<lastCreationTime, gs, ds, createCalls, lateCreates, tc, apiPresent>>
  /\ UNCHANGED PoolRest

DestroySessionIdle == [pc |-> "idle", key |-> 0, managed |-> NoSession, wakeAt |-> 0]

\* destroySession(config), up to its await; nothing to do for a key the pool
\* does not hold.
DestroySession ==
  /\ ds.pc = "idle"
  /\ \E k \in Keys :
       ds' = IF Has(sessions, k)
             THEN [pc |-> "wait", key |-> k, managed |-> SessionOf(sessions, k),
                   wakeAt |-> now + DESTROY_DELAY]
             ELSE [DestroySessionIdle EXCEPT !.pc = "done", !.key = k]
  /\ UNCHANGED <<sessions, lastCreationTime, gs, da, tc, hostSessions, createCalls,
                 lateCreates, apiPresent, faults>>
  /\ UNCHANGED PoolRest

\* destroySession letting the error of a destroy that throws escape.
AfterDestroySessionRethrow(f, throws) ==
  IF throws THEN [f EXCEPT !.pc = "rejected"] ELSE [f EXCEPT !.pc = "done"]

\* destroySession after managed.session.destroy(): the catch block logs the
\* error and deletes the key as the try block does.
AfterDestroySession(f, throws) == [f EXCEPT !.pc = "done"]

\* destroySession(config): the delay is over; destroy the session, delete its key.
DestroySessionDestroy ==
  /\ ds.pc = "wait"
  /\ now >= ds.wakeAt
  /\ \E throws \in FaultChoices :
       /\ hostSessions' = HostDestroy(hostSessions, ds.managed, "sessionManager", throws)
       /\ faults' = faults - Count(throws)
       /\ ds' = AfterDestroySession(ds, throws)
  /\ sessions' = Delete(sessions, ds.key)
  /\ UNCHANGED <<lastCreationTime, gs, da, tc, createCalls, lateCreates, apiPresent>>
  /\ UNCHANGED PoolRest

(***************************************************************************)
(* testChromeAI, which the chat view runs                                  *)
(***************************************************************************)
TEST_CREATE_TIMEOUT == 10000
TEST_PROMPT_TIMEOUT == 10000
TEST_DELAY == 500

\* The host names the session that testChromeAI's create call made <<0, 0>>.
TestHandle == <<0, 0>>

TestIdle == [pc |-> "idle", session |-> NoSession, wakeAt |-> 0, success |-> FALSE]

TestRest == <<sessions, lastCreationTime, gs, da, ds, apiPresent>>

\* The finally block, up to its await or, with no session, the return.
TestFinally(f, success) ==
  IF f.session # NoSession
  THEN [pc |-> "cleanupWait", session |-> f.session, wakeAt |-> now + DESTROY_DELAY,
        success |-> success]
  ELSE [pc |-> "done", session |-> NoSession, wakeAt |-> 0, success |-> success]

\* testChromeAI(), up to its first await
TestChromeAI ==
  /\ tc.pc = "idle"
  /\ IF ~apiPresent
     THEN tc' = TestFinally(tc, FALSE)
     ELSE tc' = [tc EXCEPT !.pc = "availWait", !.wakeAt = now + AVAILABILITY_TIMEOUT]
  /\ UNCHANGED <<hostSessions, createCalls, lateCreates, faults>>
  /\ UNCHANGED TestRest
  /\ UNCHANGED PoolRest

\* availability() answers: LanguageModel.create is called if it is 'available'.
TestAvailabilityAnswered ==
  /\ tc.pc = "availWait"
  /\ \E unavailable \in FaultChoices :
       /\ faults' = faults - Count(unavailable)
       /\ IF unavailable
          THEN /\ tc' = TestFinally(tc, FALSE)
               /\ UNCHANGED createCalls
          ELSE /\ createCalls' = CallCreate(createCalls, "testChromeAI")
               /\ tc' = [tc EXCEPT !.pc = "createWait", !.wakeAt = now + TEST_CREATE_TIMEOUT]
  /\ UNCHANGED <<hostSessions, lateCreates>>
  /\ UNCHANGED TestRest
  /\ UNCHANGED PoolRest

\* create() resolves: session.prompt('Say hello') is called.
TestCreated ==
  /\ tc.pc = "createWait"
  /\ hostSessions' = HostCreate(hostSessions, TestHandle, "testChromeAI", 0)
  /\ tc' = [tc EXCEPT !.pc = "promptWait", !.session = TestHandle,
                      !.wakeAt = now + TEST_PROMPT_TIMEOUT]
  /\ UNCHANGED <<createCalls, lateCreates, faults>>
  /\ UNCHANGED TestRest
  /\ UNCHANGED PoolRest

\* The host rejects create() or prompt(): catch, then finally.
TestRejected ==
  /\ tc.pc \in {"createWait", "promptWait"}
  /\ faults > 0
  /\ faults' = faults - 1
  /\ tc' = TestFinally(tc, FALSE)
  /\ UNCHANGED <<hostSessions, createCalls, lateCreates>>
  /\ UNCHANGED TestRest
  /\ UNCHANGED PoolRest

\* A timer wins its race against availability(), create() or prompt(); a create
\* call that lost stays pending with nobody waiting for it.
TestTimeout ==
  /\ tc.pc \in {"availWait", "createWait", "promptWait"}
  /\ now >= tc.wakeAt
  /\ lateCreates' =
       IF tc.pc = "createWait"
       THEN lateCreates \cup {[handle |-> TestHandle, key |-> 0, by |-> "testChromeAI"]}
       ELSE lateCreates
  /\ tc' = TestFinally(tc, FALSE)
  /\ UNCHANGED <<hostSessions, createCalls, faults>>
  /\ UNCHANGED TestRest
  /\ UNCHANGED PoolRest

\* prompt() resolves: the 500 ms delay before the return.
TestPromptSettled ==
  /\ tc.pc = "promptWait"
  /\ tc' = [tc EXCEPT !.pc = "delay", !.wakeAt = now + TEST_DELAY]
  /\ UNCHANGED <<hostSessions, createCalls, lateCreates, faults>>
  /\ UNCHANGED TestRest
  /\ UNCHANGED PoolRest

\* The delay is over: return success, through finally.
TestDelayOver ==
  /\ tc.pc = "delay"
  /\ now >= tc.wakeAt
  /\ tc' = TestFinally(tc, TRUE)
  /\ UNCHANGED <<hostSessions, createCalls, lateCreates, faults>>
  /\ UNCHANGED TestRest
  /\ UNCHANGED PoolRest

\* finally: the 200 ms delay is over; session.destroy().
TestCleanup ==
  /\ tc.pc = "cleanupWait"
  /\ now >= tc.wakeAt
  /\ \E throws \in FaultChoices :
       /\ hostSessions' = HostDestroy(hostSessions, tc.session, "testChromeAI", throws)
       /\ faults' = faults - Count(throws)
  /\ tc' = [TestFinally(TestIdle, tc.success) EXCEPT !.session = tc.session]
  /\ UNCHANGED <<createCalls, lateCreates>>
  /\ UNCHANGED TestRest
  /\ UNCHANGED PoolRest

TestDeadlines ==
  IF tc.pc \in {"availWait", "createWait", "promptWait", "delay", "cleanupWait"}
  THEN {tc.wakeAt}
  ELSE {}

\* The timers of the session manager's delays, and those of its timeouts.
DelayDeadlines ==
  {gs[p].wakeAt : p \in {q \in Callers :
      gs[q].pc \in {"cleanupWait", "evictWait", "rateWait", "retryWait"}}}
    \cup (IF da.pc = "wait" THEN {da.wakeAt} ELSE {})
    \cup (IF ds.pc = "wait" THEN {ds.wakeAt} ELSE {})
TimeoutDeadlines ==
  {gs[p].wakeAt : p \in {q \in Callers : gs[q].pc \in {"availWait", "createWait"}}}

PoolDeadlines == DelayDeadlines \cup TimeoutDeadlines \cup TestDeadlines

(***************************************************************************)
(* The clock.  Timers never fire early; they may fire late.                *)
(***************************************************************************)
HostLatency == 300

\* The deadline of the setTimeout simplifyArticle waits on, if any.
SimplifyDeadlines == IF sa.pc = "pause" THEN {sa.wakeAt} ELSE {}

Deadlines == SimplifyDeadlines \cup PoolDeadlines

\* A pooled session may also sit unused for longer than SESSION_TIMEOUT.
IdleTimes == IF Len(sessions) > 0 THEN {now + SESSION_TIMEOUT + 1} ELSE {}

Tick ==
  /\ ticks > 0
  /\ \E t \in {now + HostLatency} \cup {d \in Deadlines : d > now} \cup IdleTimes : now' = t
  /\ ticks' = ticks - 1
  /\ UNCHANGED <<chunkVars, simplifyVars, poolVars, offscreenVars>>

(***************************************************************************)
(* simplifyArticle                                                         *)
(***************************************************************************)
MAX_INPUT_TOKENS == 4000
CHARS_PER_TOKEN == 4
CHUNK_DELAY == 500

SummarizerHandles == {<<1, 0>>, <<2, 0>>}

\* What the host's summarize may answer: short, long, and longer than the input limit.
SummaryLens == {10, 8000, 20000}

\* error.message.includes(word), for the messages that occur
Includes(msg, word) ==
  \/ word = "cancelled" /\ msg \in {"Operation cancelled"}
  \/ word = "timeout" /\ msg \in {"Availability check timeout", "Session creation timeout"}
  \/ word = "not available" /\ msg \in {"Summarizer API not available", "Summarizer not available"}

GetSessionErrors ==
  {"Summarizer API not available", "Summarizer not available",
   "Availability check timeout", "Session creation timeout", "create failed"}

\* The catch block of simplifyArticle: the error it rethrows.
Catch(msg) ==
  IF Includes(msg, "cancelled") THEN "Simplification was cancelled"
  ELSE IF Includes(msg, "timeout")
       THEN "Simplification timed out. Please try with a shorter article."
  ELSE IF Includes(msg, "not available")
       THEN "Chrome AI is not available. Please check your setup."
  ELSE msg

\* The helpers below run the code from one await to the next: from the locals
\* f and the host's call log they give the locals and the log at the next await
\* (or at the return or throw).
Step(f, calls) == [sa |-> f, hostCalls |-> calls]

Reject(f, calls, msg) == Step([f EXCEPT !.pc = "rejected", !.error = Catch(msg)], calls)

Return(f, calls, r) == Step([f EXCEPT !.pc = "done", !.result = r], calls)

\* summarize(summarizer, t, context): the host call is issued and awaited.
IssueSummarize(f, calls, t, pc) ==
  Step([f EXCEPT !.pc = pc],
       Append(calls, [session |-> f.summarizer, text |-> t, start |-> now, end |-> now,
                      state |-> "pending", result |-> Plain(0)]))

\* Fold without the final pass.
FoldNever(f, calls) == Return(f, calls, join(f.summaries))

\* After the loop: join the summaries and, if still too large, summarize again.
Fold(f, calls) ==
  LET combinedSummary == join(f.summaries)
  IN  IF estimateTokens(combinedSummary) > MAX_INPUT_TOKENS
      THEN IF f.aborted
           THEN Reject(f, calls, "Operation cancelled")
           ELSE IssueSummarize(f, calls, combinedSummary, "fold")
      ELSE Return(f, calls, combinedSummary)

\* ChunkLoop without the look at the signal.
ChunkLoopNoAbortCheck(f, calls) ==
  IF f.i < Len(f.chunks)
  THEN IssueSummarize(f, calls, f.chunks[f.i + 1], "chunk")
  ELSE Fold(f, calls)

\* The head of the for loop at index f.i.
ChunkLoop(f, calls) ==
  IF f.i < Len(f.chunks)
  THEN IF f.aborted
       THEN Reject(f, calls, "Operation cancelled")
       ELSE IssueSummarize(f, calls, f.chunks[f.i + 1], "chunk")
  ELSE Fold(f, calls)

\* AfterSession chunking from the limit on (>= instead of >).
AfterSessionAtLimit(f, calls) ==
  IF f.aborted
  THEN Reject(f, calls, "Operation cancelled")
  ELSE IF f.estimatedTokens >= MAX_INPUT_TOKENS
       THEN ChunkLoop([f EXCEPT
              !.chunks = splitIntoChunks(f.content,
                           [maxChunkSize |-> MAX_INPUT_TOKENS * CHARS_PER_TOKEN,
                            overlap |-> 200]),
              !.summaries = <<>>,
              !.i = 0], calls)
       ELSE IssueSummarize(f, calls, f.content, "single")

\* What follows the await of getSession.
AfterSession(f, calls) ==
  IF f.aborted
  THEN Reject(f, calls, "Operation cancelled")
  ELSE IF f.estimatedTokens > MAX_INPUT_TOKENS
       THEN ChunkLoop([f EXCEPT
              !.chunks = splitIntoChunks(f.content,
                           [maxChunkSize |-> MAX_INPUT_TOKENS * CHARS_PER_TOKEN,
                            overlap |-> 200]),
              !.summaries = <<>>,
              !.i = 0], calls)
       ELSE IssueSummarize(f, calls, f.content, "single")

\* AfterChunk going on to the next chunk without the pause.
AfterChunkNoPause(f, calls, summary) ==
  ChunkLoop([f EXCEPT !.summaries = Append(f.summaries, summary), !.i = f.i + 1], calls)

\* What follows the await of summarize for chunk f.i.
AfterChunk(f, calls, summary) ==
  LET g == [f EXCEPT !.summaries = Append(f.summaries, summary)]
  IN  IF g.i < Len(g.chunks) - 1
      THEN Step([g EXCEPT !.pc = "pause", !.wakeAt = now + CHUNK_DELAY], calls)
      ELSE ChunkLoop([g EXCEPT !.i = g.i + 1], calls)

\* What follows the 500 ms pause after chunk f.i.
AfterPause(f, calls) == ChunkLoop([f EXCEPT !.i = f.i + 1], calls)

\* The host settles the summarize call in flight (the last one issued).
Settle(calls, state, r) ==
  [calls EXCEPT ![Len(calls)] = [@ EXCEPT !.state = state, !.end = now, !.result = r]]

Goto(step) == sa' = step.sa /\ hostCalls' = step.hostCalls

SimplifyCall ==
  /\ sa.pc = "call"
  /\ IF sa.aborted
     THEN sa' = [sa EXCEPT !.pc = "rejected", !.error = "Operation cancelled"]
     ELSE sa' = [sa EXCEPT !.pc = "getSession",
                           !.estimatedTokens = estimateTokens(sa.content)]
  /\ UNCHANGED <<hostCalls, chunkVars, clockVars, poolVars, offscreenVars>>

GetSessionResolved ==
  /\ sa.pc = "getSession"
  /\ \E h \in SummarizerHandles : Goto(AfterSession([sa EXCEPT !.summarizer = h], hostCalls))
  /\ UNCHANGED <<chunkVars, clockVars, poolVars, offscreenVars>>

GetSessionRejected ==
  /\ sa.pc = "getSession"
  /\ \E e \in GetSessionErrors : Goto(Reject(sa, hostCalls, e))
  /\ UNCHANGED <<chunkVars, clockVars, poolVars, offscreenVars>>

ChunkSummarized ==
  /\ sa.pc = "chunk"
  /\ \E n \in SummaryLens :
       Goto(AfterChunk(sa, Settle(hostCalls, "resolved", Plain(n)), Plain(n)))
  /\ UNCHANGED <<chunkVars, clockVars, poolVars, offscreenVars>>

PauseElapsed ==
  /\ sa.pc = "pause"
  /\ now >= sa.wakeAt
  /\ Goto(AfterPause(sa, hostCalls))
  /\ UNCHANGED <<chunkVars, clockVars, poolVars, offscreenVars>>

FoldSummarized ==
  /\ sa.pc = "fold"
  /\ \E n \in SummaryLens :
       Goto(Return(sa, Settle(hostCalls, "resolved", Plain(n)), Plain(n)))
  /\ UNCHANGED <<chunkVars, clockVars, poolVars, offscreenVars>>

SingleSummarized ==
  /\ sa.pc = "single"
  /\ \E n \in SummaryLens :
       Goto(Return(sa, Settle(hostCalls, "resolved", Plain(n)), Plain(n)))
  /\ UNCHANGED <<chunkVars, clockVars, poolVars, offscreenVars>>

\* summarize rethrows what the host's summarize throws.
SummarizeFailed ==
  /\ sa.pc \in {"chunk", "fold", "single"}
  /\ Goto(Reject(sa, Settle(hostCalls, "rejected", Plain(0)), "summarize failed"))
  /\ UNCHANGED <<chunkVars, clockVars, poolVars, offscreenVars>>

\* The caller's AbortController aborts the signal.
Abort ==
  /\ sa.pc \in {"call", "getSession", "chunk", "pause", "fold", "single"}
  /\ ~sa.aborted
  /\ sa' = [sa EXCEPT !.aborted = TRUE]
  /\ UNCHANGED <<hostCalls, chunkVars, clockVars, poolVars, offscreenVars>>

\* The contents simplifyArticle is called with: within the limit, just over
\* it, and up to 3.5 times the chunk size, without and with a late break.
SimplifyContents ==
  LET m == MAX_INPUT_TOKENS * CHARS_PER_TOKEN
  IN  {Plain(0), Plain(100)}
      \cup {Text(n, {}, {}, S) : n \in ChunkLens(m), S \in {{}, {m - 2}}}

InitSimplify ==
  /\ OffscreenIdle
  /\ ChunkIdle
  /\ ClockIdle
  /\ PoolIdle
  /\ hostCalls = <<>>
  /\ \E c \in SimplifyContents :
       sa = [pc |-> "call", content |-> c, aborted |-> FALSE, estimatedTokens |-> 0,
             summarizer |-> NoSession, chunks |-> <<>>, summaries |-> <<>>, i |-> 0,
             wakeAt |-> 0, result |-> Plain(0), error |-> ""]

NextSimplify ==
  \/ SimplifyCall
  \/ GetSessionResolved
  \/ GetSessionRejected
  \/ ChunkSummarized
  \/ PauseElapsed
  \/ FoldSummarized
  \/ SingleSummarized
  \/ SummarizeFailed
  \/ Abort
  \/ Tick

SpecSimplify == InitSimplify /\ [][NextSimplify]_vars

Oversized(t) == estimateTokens(t) > MAX_INPUT_TOKENS

\* C7: simplifyArticle on content with estimateTokens(content) <= 4000, the
\* signal not aborted and the session acquired, makes exactly one host
\* summarize call, on the whole content, and returns that call's result.
C7_SingleCall ==
  (~Oversized(sa.content) /\ ~sa.aborted /\ sa.pc # "idle") =>
     /\ sa.pc \in {"call", "getSession", "single", "done", "rejected"}
     /\ sa.summarizer = NoSession => hostCalls = <<>>
     /\ sa.summarizer # NoSession =>
          /\ Len(hostCalls) = 1
          /\ hostCalls[1].text = sa.content
          /\ hostCalls[1].session = sa.summarizer
     /\ sa.pc = "done" =>
          /\ hostCalls[1].state = "resolved"
          /\ sa.result = hostCalls[1].result

C7_Witness ==
  /\ sa.pc = "done"
  /\ ~sa.aborted
  /\ sa.content.len = 16000
  /\ Len(hostCalls) = 1
  /\ sa.result = Plain(8000)

\* C9: for oversized content the host summarize calls of one simplifyArticle
\* call are made once per chunk, in chunk order, on the session acquired at
\* the start; the call for chunk i+1 starts only after the call for chunk i
\* has resolved and 500 ms have passed, so no two calls are in flight together.
C9_Sequential ==
  LET n == Len(sa.chunks)
  IN  /\ \A j \in 1..Len(hostCalls) : j <= n =>
           /\ hostCalls[j].text = sa.chunks[j]
           /\ hostCalls[j].session = sa.summarizer
      /\ \A j \in 2..Len(hostCalls) : j <= n =>
           /\ hostCalls[j - 1].state = "resolved"
           /\ hostCalls[j].start >= hostCalls[j - 1].end + CHUNK_DELAY
      /\ \A j \in 1..Len(hostCalls) : hostCalls[j].state = "pending" => j = Len(hostCalls)
      /\ sa.pc \in {"chunk", "pause"} => Len(hostCalls) = sa.i + 1
      /\ (sa.pc \in {"fold", "done"} /\ Oversized(sa.content)) =>
           /\ Len(hostCalls) >= n
           /\ \A j \in 1..n : hostCalls[j].state = "resolved"

C9_Witness ==
  /\ sa.pc = "done"
  /\ Len(sa.chunks) >= 4
  /\ Len(hostCalls) = Len(sa.chunks)
  /\ hostCalls[4].start > hostCalls[3].end + CHUNK_DELAY

\* The per-chunk results the host gave, joined with a blank line.
JoinedResults == join([j \in 1..Len(sa.chunks) |-> hostCalls[j].result])

\* C10: when the joined chunk results have estimateTokens > 4000,
\* simplifyArticle makes exactly one more host summarize call, on the joined
\* text and the same session, and returns its result as is; when they are
\* within the limit it makes none.  One call makes at most
\* (number of chunks + 1) host summarize calls.
C10_FoldOnce ==
  /\ Len(hostCalls) <= Len(sa.chunks) + 1
  /\ (sa.pc = "done" /\ Oversized(sa.content)) =>
       LET n == Len(sa.chunks)
       IN  IF Oversized(JoinedResults)
           THEN /\ Len(hostCalls) = n + 1
                /\ hostCalls[n + 1].text = JoinedResults
                /\ hostCalls[n + 1].session = sa.summarizer
                /\ hostCalls[n + 1].state = "resolved"
                /\ sa.result = hostCalls[n + 1].result
           ELSE /\ Len(hostCalls) = n
                /\ sa.result = JoinedResults

C10_Witness ==
  /\ sa.pc = "done"
  /\ Len(sa.chunks) >= 2
  /\ Len(hostCalls) = Len(sa.chunks) + 1
  /\ Oversized(sa.result)

\* The number of chunks simplifyArticle splits its content into.
NumChunks == Len(splitIntoChunks(sa.content, SimplifyOptions))

CancelErrors == {"Operation cancelled", "Simplification was cancelled"}

\* Once the signal is aborted, no further host summarize call is issued.
NoCallAfterAbort == sa.aborted => Len(hostCalls') = Len(hostCalls)

\* The signal was aborted before every chunk was started, and the call is over.
AbortedBeforeLastChunk ==
  /\ sa.aborted
  /\ Oversized(sa.content)
  /\ Len(hostCalls) < NumChunks
  /\ sa.pc \in {"done", "rejected"}

\* The call simplifyArticle was waiting for when the signal was aborted
\* rejected: simplifyArticle rejects with that call's error.
AwaitedCallRejected ==
  \/ hostCalls = <<>> /\ sa.error \in {Catch(e) : e \in GetSessionErrors}
  \/ /\ Len(hostCalls) > 0
     /\ hostCalls[Len(hostCalls)].state = "rejected"
     /\ sa.error = "summarize failed"

NumCallers == 2
PoolTicks == 1
TestTicks == 2

\* The pool as w earlier getSession calls, all settled, left it: w sessions
\* with keys 1..w, created MIN_CREATION_INTERVAL apart, the last one `age`
\* before StartTime, each used once.
WarmAges == {0, MIN_CREATION_INTERVAL, SESSION_TIMEOUT + 1}
WarmAt(w, age, j) == StartTime - age - (w - j) * MIN_CREATION_INTERVAL
WarmHandle(j) == <<0, j>>
WarmSessions(w, age) ==
  [j \in 1..w |-> [key |-> j, session |-> WarmHandle(j), type |-> TypeOf(j),
                   createdAt |-> WarmAt(w, age, j), lastUsedAt |-> WarmAt(w, age, j),
                   useCount |-> 1]]

WarmPool(w, age) ==
  /\ sessions = WarmSessions(w, age)
  /\ lastCreationTime = (IF w = 0 THEN 0 ELSE StartTime - age)
  /\ hostSessions = [h \in {WarmHandle(j) : j \in 1..w} |->
                       NewHostSession("sessionManager", h[2])]
  /\ createCalls = [j \in 1..w |-> [by |-> "sessionManager", start |-> WarmAt(w, age, j)]]

\* n getSession calls to come, on a pool of zero to MAX_SESSIONS sessions
InitManager(n, t) ==
  /\ OffscreenIdle
  /\ ChunkIdle
  /\ SimplifyIdle
  /\ now = StartTime
  /\ ticks = t
  /\ \/ WarmPool(0, 0)
     \/ \E w \in 1..MAX_SESSIONS : \E age \in WarmAges : WarmPool(w, age)
  /\ gs = [p \in 1..n |-> Idle(p)]
  /\ lateCreates = {}
  /\ apiPresent \in BOOLEAN
  /\ faults = MaxFaults

\* getSession calls, and destroyAll when the extension is suspended
InitPool ==
  /\ InitManager(NumCallers, PoolTicks)
  /\ da = [pc |-> "idle"]
  /\ ds = [pc |-> "off"]
  /\ tc = [pc |-> "off"]

\* A step of a getSession call, or of the host for one
GetSessionStep ==
  \/ \E p \in Callers : GetSession(p)
  \/ \E p \in Callers : CleanupDestroy(p)
  \/ \E p \in Callers : AfterCleanup(p)
  \/ \E p \in Callers : EvictDestroy(p)
  \/ \E p \in Callers : AfterEvict(p)
  \/ \E p \in Callers : RateWaitOver(p)
  \/ \E p \in Callers : AvailabilityAnswered(p)
  \/ \E p \in Callers : AvailabilityTimeout(p)
  \/ \E p \in Callers : Created(p)
  \/ \E p \in Callers : CreateFailed(p)
  \/ \E p \in Callers : CreateTimeout(p)
  \/ \E p \in Callers : Retry(p)
  \/ \E p \in Callers : Borrow(p)
  \/ \E p \in Callers : PromptSettled(p)
  \/ LateCreated

Next ==
  \/ GetSessionStep
  \/ DestroyAll
  \/ DestroyAllDestroy
  \/ Tick

Spec == InitPool /\ [][Next]_vars

\* testChromeAI next to one getSession call
InitTest ==
  /\ InitManager(1, TestTicks)
  /\ da = [pc |-> "off"]
  /\ ds = [pc |-> "off"]
  /\ tc = TestIdle

NextTest ==
  \/ GetSessionStep
  \/ Tick
  \/ TestChromeAI
  \/ TestAvailabilityAnswered
  \/ TestCreated
  \/ TestRejected
  \/ TestTimeout
  \/ TestPromptSettled
  \/ TestDelayOver
  \/ TestCleanup

SpecTest == InitTest /\ [][NextTest]_vars

(***************************************************************************)
(* destroyAll on its own, on a pool of zero to MAX_SESSIONS sessions, with *)
(* a host whose destroy may throw every time                               *)
(***************************************************************************)
ShutdownTicks == 3
ShutdownFaults == 3

InitShutdown ==
  /\ OffscreenIdle
  /\ ChunkIdle
  /\ SimplifyIdle
  /\ now = StartTime
  /\ ticks = ShutdownTicks
  /\ \/ WarmPool(0, 0)
     \/ \E w \in 1..MAX_SESSIONS : \E age \in WarmAges : WarmPool(w, age)
  /\ gs = <<>>
  /\ da = [pc |-> "idle"]
  /\ ds = [pc |-> "off"]
  /\ tc = [pc |-> "off"]
  /\ lateCreates = {}
  /\ apiPresent = TRUE
  /\ faults \in 0..ShutdownFaults

NextShutdown == DestroyAll \/ DestroyAllDestroy \/ Tick

SpecShutdown == InitShutdown /\ [][NextShutdown]_vars

\* The sessions destroyAll has been through: all of them once it is done,
\* those before the one it waits for until then.
DestroyAllPassed ==
  IF da.pc = "wait"
  THEN {h \in DOMAIN hostSessions : h[2] < da.victim[2]}
  ELSE IF da.pc = "idle" THEN {} ELSE DOMAIN hostSessions

\* C12: destroyAll on a pool of K sessions calls destroy once on each of the
\* K sessions, also when some of these calls throw; it never rejects, and the
\* pool is empty when it resolves.
C12_DestroyAllAttemptsAll ==
  /\ da.pc # "rejected"
  /\ \A h \in DOMAIN hostSessions :
        hostSessions[h].destroyCalls = (IF h \in DestroyAllPassed THEN 1 ELSE 0)
  /\ da.pc = "done" => sessions = <<>>

C12_Witness ==
  /\ da.pc = "done"
  /\ sessions = <<>>
  /\ Cardinality(DOMAIN hostSessions) = MAX_SESSIONS
  /\ \A h \in DOMAIN hostSessions : hostSessions[h].destroyCalls = 1
  /\ Cardinality({h \in DOMAIN hostSessions : ~hostSessions[h].destroyed}) = 2

(***************************************************************************)
(* One getSession call on its own, followed through its sweep, eviction,   *)
(* waits and retries                                                       *)
(***************************************************************************)
CallTicks == 4
CallFaults == 3

InitCall ==
  /\ OffscreenIdle
  /\ ChunkIdle
  /\ SimplifyIdle
  /\ now = StartTime
  /\ ticks = CallTicks
  /\ \/ WarmPool(0, 0)
     \/ \E w \in 1..MAX_SESSIONS : \E age \in WarmAges : WarmPool(w, age)
  /\ gs = [p \in 1..1 |-> Idle(p)]
  /\ da = [pc |-> "off"]
  /\ ds = [pc |-> "off"]
  /\ tc = [pc |-> "off"]
  /\ lateCreates = {}
  /\ apiPresent \in BOOLEAN
  /\ faults \in 0..CallFaults

NextCall == GetSessionStep \/ Tick

SpecCall == InitCall /\ [][NextCall]_vars

\* The pool holds the host session h.
Pooled(h) == \E j \in 1..Len(sessions) : sessions[j].session = h

\* C13: on a getSession call that misses, every pooled session whose
\* lastUsedAt was more than SESSION_TIMEOUT in the past when the sweep began
\* has had destroy called on it and is out of the pool once the sweep is over,
\* and so before the call issues availability() and create().
C13_SweepBeforeCreate ==
  \A p \in Callers :
     gs[p].pc \notin {"idle", "cleanupWait"} =>
        \A h \in gs[p].expired :
           /\ hostSessions[h].destroyCalls >= 1
           /\ ~Pooled(h)

C13_Witness ==
  \E p \in Callers :
     /\ gs[p].pc = "createWait"
     /\ Cardinality(gs[p].expired) = MAX_SESSIONS
     /\ \A h \in gs[p].expired : hostSessions[h].destroyCalls = 1
     /\ sessions = <<>>

\* Call p takes a step.
Steps(p) == gs'[p] # gs[p]

\* The capacity check of call p: at MAX_SESSIONS it picks a pooled session
\* with the least lastUsedAt, below it picks none.
EvictionChosen(p) ==
  (Steps(p) /\ gs[p].pc = "afterCleanup") =>
     IF Len(sessions) >= MAX_SESSIONS
     THEN /\ gs'[p].pc = "evictWait"
          /\ \E j \in 1..Len(sessions) :
                /\ sessions[j].session = gs'[p].victim
                /\ \A l \in 1..Len(sessions) : sessions[l].lastUsedAt >= sessions[j].lastUsedAt
     ELSE gs'[p].pc # "evictWait"

\* The eviction of call p: destroy is called on the session picked and on no
\* other, and its entry leaves the pool, alone.
EvictionDone(p) ==
  (Steps(p) /\ gs[p].pc = "evictWait") =>
     /\ hostSessions'[gs[p].victim].destroyCalls = hostSessions[gs[p].victim].destroyCalls + 1
     /\ \A h \in DOMAIN hostSessions \ {gs[p].victim} : hostSessions'[h] = hostSessions[h]
     /\ \A j \in 1..Len(sessions') : sessions'[j].session # gs[p].victim
     /\ Len(sessions') >= Len(sessions) - 1

\* No other step of call p than its sweep and its eviction destroys or removes
\* a session, and the eviction comes before availability() and create().
NoOtherEviction(p) ==
  /\ (Steps(p) /\ gs[p].pc \notin {"cleanupWait", "evictWait"}) =>
        /\ \A h \in DOMAIN hostSessions :
              hostSessions'[h].destroyCalls = hostSessions[h].destroyCalls
        /\ \A j \in 1..Len(sessions) : Has(sessions', sessions[j].key)
  /\ gs'[p].pc = "evictWait" => gs[p].pc \in {"afterCleanup", "evictWait"}

\* C14: a getSession call that misses while the pool holds MAX_SESSIONS
\* sessions after the sweep destroys and removes exactly one session, one with
\* the least lastUsedAt among the pooled ones, before its create call; one
\* that finds fewer than MAX_SESSIONS evicts none.
C14_EvictsOneOldest ==
  [][\A p \in Callers : EvictionChosen(p) /\ EvictionDone(p) /\ NoOtherEviction(p)]_vars

C14_Witness ==
  \E p \in Callers :
     /\ gs[p].pc = "createWait"
     /\ gs[p].expired = {}
     /\ Len(sessions) = MAX_SESSIONS - 1
     /\ hostSessions[WarmHandle(1)].destroyCalls = 1
     /\ ~Pooled(WarmHandle(1))
     /\ Pooled(WarmHandle(2)) /\ Pooled(WarmHandle(3))

\* The errors an attempt can end with, by the await it was at when it failed.
AttemptErrors(f) ==
  CASE f.pc = "availWait"  -> {"not available", "Availability check timeout"}
    [] f.pc = "createWait" -> {"create failed", "Session creation timeout"}
    [] OTHER               -> {"API not available"}

\* The create calls made since the first state, those of the sessions found
\* in the pool left out.
CreatesSinceStart ==
  SubSeq(createCalls, Cardinality({h \in DOMAIN hostSessions : h[1] = 0}) + 1,
         Len(createCalls))

\* Attempt i of a call is over or under way: i + 1 attempts were started.
Attempting(f) == f.pc \in {"availWait", "createWait", "retryWait"}

\* A failed attempt that is not the last starts the 2000 ms timer, and the
\* next attempt starts when that timer fires.
BackoffBetweenAttempts(p) ==
  /\ (Steps(p) /\ gs'[p].pc = "retryWait") =>
        /\ gs'[p].wakeAt = now + RETRY_DELAY
        /\ gs'[p].i < RETRIES
  /\ (Steps(p) /\ gs[p].pc = "retryWait") =>
        /\ now >= gs[p].wakeAt
        /\ gs'[p].pc # "failed" => gs'[p].i = gs[p].i + 1
  /\ (Steps(p) /\ Attempting(gs[p]) /\ Attempting(gs'[p]) /\ gs'[p].i # gs[p].i) =>
        gs[p].pc = "retryWait"

\* getSession rejects when attempt RETRIES fails, with that attempt's error,
\* and stores nothing.
RejectsAfterLastAttempt(p) ==
  (Steps(p) /\ gs'[p].pc = "failed") =>
     /\ gs'[p].i = 0
     /\ \/ gs[p].pc # "retryWait" /\ gs[p].i = RETRIES
        \/ gs[p].pc = "retryWait" /\ gs[p].i = RETRIES - 1
     /\ gs'[p].error \in AttemptErrors(gs[p])
     /\ sessions' = sessions
     /\ ~Has(sessions', gs[p].key)

Hit(p) ==
  /\ gs[p].pc = "idle"
  /\ gs'[p].pc # "idle"
  /\ Has(sessions, gs'[p].key)

\* C18: a getSession call for a config the pool holds a session for returns
\* that session's handle at once, with no host call; it sets the entry's
\* lastUsedAt to now, adds 1 to its useCount and changes neither another
\* entry nor lastCreationTime.
C18_HitTouchesOneEntry ==
  [][\A p \in Callers :
       Hit(p) =>
         /\ gs'[p].pc = "got"
         /\ gs'[p].session = Get(sessions, gs'[p].key).session
         /\ now' = now
         /\ <<hostSessions, createCalls, lateCreates>>' = <<hostSessions, createCalls, lateCreates>>
         /\ lastCreationTime' = lastCreationTime
         /\ Len(sessions') = Len(sessions)
         /\ \A j \in 1..Len(sessions) :
               sessions'[j] = IF sessions[j].key = gs'[p].key
                              THEN [sessions[j] EXCEPT !.lastUsedAt = now,
                                                       !.useCount = sessions[j].useCount + 1]
                              ELSE sessions[j]]_vars

C18_Witness ==
  \E p \in Callers :
     /\ gs[p].pc = "got"
     /\ Len(sessions) = MAX_SESSIONS
     /\ Has(sessions, gs[p].key)
     /\ Get(sessions, gs[p].key).session = gs[p].session
     /\ Get(sessions, gs[p].key).useCount = 2
     /\ Get(sessions, gs[p].key).lastUsedAt = now
     /\ Get(sessions, gs[p].key).createdAt < now

\* availability() answers call p with something other than 'available'.
AnsweredUnavailable(p) ==
  /\ gs[p].pc = "availWait"
  /\ gs'[p].pc # "availWait"
  /\ faults' = faults - 1

\* C19: with the capability unavailable (its global absent, or availability()
\* answering 'unavailable') getSession rejects after the first probe: it
\* waits for no retry backoff and probes or creates no more.
C19_UnavailableNotRetried ==
  /\ [](\A p \in Callers : ~apiPresent => gs[p].pc # "retryWait")
  /\ [][\A p \in Callers : AnsweredUnavailable(p) => gs'[p].pc = "failed"]_vars

\* One getSession call and one destroySession call on a pool of 0..3 sessions
DestroyTicks == 2
DestroyFaults == 2

InitDestroy ==
  /\ OffscreenIdle
  /\ ChunkIdle
  /\ SimplifyIdle
  /\ now = StartTime
  /\ ticks = DestroyTicks
  /\ \/ WarmPool(0, 0)
     \/ \E w \in 1..MAX_SESSIONS : \E age \in WarmAges : WarmPool(w, age)
  /\ gs = [p \in 1..1 |-> Idle(p)]
  /\ da = [pc |-> "off"]
  /\ ds = DestroySessionIdle
  /\ tc = [pc |-> "off"]
  /\ lateCreates = {}
  /\ apiPresent = TRUE
  /\ faults \in 0..DestroyFaults

NextDestroy ==
  \/ GetSessionStep
  \/ DestroySession
  \/ DestroySessionDestroy
  \/ Tick

SpecDestroy == InitDestroy /\ [][NextDestroy]_vars

\* The host's destroy is called on h in this step, and throws.
Threw(h) ==
  /\ hostSessions'[h].destroyCalls = hostSessions[h].destroyCalls + 1
  /\ hostSessions'[h].destroyed = hostSessions[h].destroyed
  /\ ~hostSessions[h].destroyed

\* The throw of destroy on h is swallowed: the entry of h is out of the pool,
\* the getSession call that made it goes on (to the next expired session, the
\* capacity check or the rate limit), destroySession resolves.
ThrowSwallowed(h) ==
  /\ \A j \in 1..Len(sessions') : sessions'[j].session # h
  /\ \A p \in Callers :
        Steps(p) => gs'[p].pc \in {"cleanupWait", "afterCleanup", "afterEvict"}
  /\ ds' # ds => ds'.pc = "done"

\* C20: a destroy that throws in the idle sweep, in the eviction of the least
\* recently used session or in destroySession makes neither getSession nor
\* destroySession reject: the entry is removed all the same and getSession
\* goes on to the creation.
C20_DestroyThrowSwallowed ==
  /\ [](ds.pc # "rejected")
  /\ [][\A h \in DOMAIN hostSessions : Threw(h) => ThrowSwallowed(h)]_vars

\* getSession has returned a new session after the destroy of its eviction
\* threw, and destroySession has resolved after its destroy threw.
C20_Witness ==
  /\ ds.pc = "done"
  /\ ds.managed # NoSession
  /\ ~hostSessions[ds.managed].destroyed
  /\ hostSessions[ds.managed].destroyCalls = 1
  /\ ~Pooled(ds.managed)
  /\ \E p \in Callers :
        /\ gs[p].pc = "got"
        /\ Pooled(gs[p].session)
        /\ gs[p].session[1] = p
        /\ \E h \in DOMAIN hostSessions \ {ds.managed} :
              /\ hostSessions[h].destroyCalls = 1
              /\ ~hostSessions[h].destroyed
              /\ ~Pooled(h)

\* getSession call p returns a session: by the reuse path or with the one
\* it created.
Returns(p) == gs[p].pc # "got" /\ gs'[p].pc = "got"

\* C23: getSession never returns a session on which the host's destroy has
\* been called, whatever destroyAll, the sweep and the eviction are doing.
C23_NoDestroyedHandleReturned ==
  [][\A p \in Callers :
       Returns(p) => hostSessions'[gs'[p].session].destroyCalls = 0]_vars

\* C24: the host's destroy is called at most once on any session.
C24_DestroyedAtMostOnce ==
  \A h \in DOMAIN hostSessions : hostSessions[h].destroyCalls <= 1

\* C25: every session a create call of the session manager has produced is
\* held in the pool map or has had destroy called on it.
C25_NoOrphanedSession ==
  \A h \in DOMAIN hostSessions :
     hostSessions[h].by = "sessionManager" =>
        Pooled(h) \/ hostSessions[h].destroyCalls > 0

\* The borrowers whose prompt or summarize call on session h has not settled.
CallsInFlight(h) == {p \in Callers : gs[p].pc = "prompt" /\ gs[p].session = h}

\* C26: at most one summarize or prompt call is in flight on any one session.
C26_OneCallPerSession ==
  \A h \in DOMAIN hostSessions : Cardinality(CallsInFlight(h)) <= 1

\* One getSession call, or none, on a pool left alone: every step of a call
\* under way is taken in the end and the clock goes on, but nobody has to call.
IdleTicks == 2

InitIdle ==
  /\ InitManager(1, IdleTicks)
  /\ da = [pc |-> "off"]
  /\ ds = [pc |-> "off"]
  /\ tc = [pc |-> "off"]

\* A getSession call is made.
Starts == \E p \in Callers : gs[p].pc = "idle" /\ gs'[p].pc # "idle"

SpecIdle ==
  /\ InitIdle
  /\ [][NextCall]_vars
  /\ WF_vars(Tick)
  /\ WF_vars(GetSessionStep /\ ~Starts)

\* The pool holds a session for key k that was last used more than
\* SESSION_TIMEOUT ago.
IdleTooLong(k) ==
  /\ Has(sessions, k)
  /\ now - Get(sessions, k).lastUsedAt > SESSION_TIMEOUT

\* The clock's budget ran out while a getSession call was under way.
CutShort == ticks = 0 /\ \E p \in Callers : gs[p].pc # "idle"

\* C22: a pooled session unused for longer than SESSION_TIMEOUT is in the
\* end destroyed and removed from the pool (unless it is used again), whether
\* or not a later getSession call misses the pool.  Runs cut short in the
\* middle of a call say nothing either way.
C22_IdleSessionRemoved ==
  \A k \in Keys : IdleTooLong(k) ~> (~IdleTooLong(k) \/ CutShort)

(***************************************************************************)
(* The offscreen helper (setupOffscreenDocument, runOffscreenAI) and the  *)
(* 'simplify' handler of the offscreen document (handleSimplify).         *)
(***************************************************************************)

NumOffscreenCallers == 2

OffscreenCallers == DOMAIN ro

\* The contents runOffscreenAI('simplify', ...) is called with: within the
\* input limit, and 2 and 3.5 chunk sizes long.
OffscreenContents ==
  LET m == MAX_INPUT_TOKENS * CHARS_PER_TOKEN
  IN  {Plain(100), Plain(2 * m), Plain((7 * m) \div 2)}

\* The frame of one runOffscreenAI call; `afterRejection` remembers whether an
\* earlier call had been rejected by createDocument when this one was made.
OffscreenIdleCall(c) ==
  [pc |-> "idle", content |-> c, promise |-> 0, path |-> "", documentAtSend |-> FALSE,
   result |-> Plain(0), error |-> "", afterRejection |-> FALSE]

\* chrome.runtime.sendMessage: the message reaches the offscreen document,
\* whose listener runs handleSimplify up to its await of getSession.
SendMessage(f) ==
  IF documents > 0
  THEN [f EXCEPT !.pc = "getSession", !.documentAtSend = TRUE]
  ELSE [f EXCEPT !.pc = "rejected", !.error = "Receiving end does not exist"]

\* setupOffscreenDocument after getContexts that never waits for a creation
\* in flight.
AfterContextsNoWait(existingContexts) ==
  IF existingContexts > 0 THEN "return" ELSE "create"

\* setupOffscreenDocument after its await of getContexts: return, wait for
\* the creation in flight, or create the document.
AfterContexts(existingContexts) ==
  IF existingContexts > 0 THEN "return"
  ELSE IF creating # 0 THEN "await"
  ELSE "create"

\* A runOffscreenAI call has been rejected with the error of createDocument.
CreationRejected ==
  \E q \in OffscreenCallers : ro[q].pc = "rejected" /\ ro[q].error = "createDocument failed"

\* runOffscreenAI is called: setupOffscreenDocument calls getContexts.
RunOffscreenAI(p) ==
  /\ ro[p].pc = "idle"
  /\ ro' = [ro EXCEPT ![p] = [@ EXCEPT !.pc = "getContexts",
                                       !.afterRejection = CreationRejected]]
  /\ UNCHANGED <<creating, createDocumentCalls, documents, offscreenCalls>>
  /\ UNCHANGED <<messages, chunkVars, clockVars, simplifyVars, poolVars>>

\* getContexts answers with the offscreen documents that exist.
ContextsAnswered(p) ==
  /\ ro[p].pc = "getContexts"
  /\ LET path == AfterContexts(documents)
         promise == Len(createDocumentCalls) + 1
     IN  CASE path = "return" ->
                /\ ro' = [ro EXCEPT ![p] = SendMessage([@ EXCEPT !.path = path])]
                /\ UNCHANGED <<creating, createDocumentCalls>>
           [] path = "await" ->
                /\ ro' = [ro EXCEPT ![p] = [@ EXCEPT !.pc = "awaitCreating", !.path = path,
                                                     !.promise = creating]]
                /\ UNCHANGED <<creating, createDocumentCalls>>
           [] path = "create" ->
                /\ createDocumentCalls' = Append(createDocumentCalls, "pending")
                /\ creating' = promise
                /\ ro' = [ro EXCEPT ![p] = [@ EXCEPT !.pc = "awaitCreated", !.path = path,
                                                     !.promise = promise]]
  /\ UNCHANGED <<documents, offscreenCalls>>
  /\ UNCHANGED <<messages, chunkVars, clockVars, simplifyVars, poolVars>>

\* The host settles a createDocument call: the document exists, or the call
\* fails (as it does when a document exists already).
DocumentCreated ==
  /\ \E k \in 1..Len(createDocumentCalls) :
       /\ createDocumentCalls[k] = "pending"
       /\ \E fails \in BOOLEAN :
            IF fails \/ documents > 0
            THEN /\ createDocumentCalls' = [createDocumentCalls EXCEPT ![k] = "rejected"]
                 /\ UNCHANGED documents
            ELSE /\ createDocumentCalls' = [createDocumentCalls EXCEPT ![k] = "fulfilled"]
                 /\ documents' = documents + 1
  /\ UNCHANGED <<creating, ro, offscreenCalls>>
  /\ UNCHANGED <<messages, chunkVars, clockVars, simplifyVars, poolVars>>

\* The caller that called createDocument resumes: creating = null, and
\* runOffscreenAI sends its message; a rejection leaves creating as it is.
CreatorResumes(p) ==
  /\ ro[p].pc = "awaitCreated"
  /\ createDocumentCalls[ro[p].promise] # "pending"
  /\ IF createDocumentCalls[ro[p].promise] = "fulfilled"
     THEN /\ creating' = 0
          /\ ro' = [ro EXCEPT ![p] = SendMessage(@)]
     ELSE /\ ro' = [ro EXCEPT ![p] = [@ EXCEPT !.pc = "rejected",
                                               !.error = "createDocument failed"]]
          /\ UNCHANGED creating
  /\ UNCHANGED <<createDocumentCalls, documents, offscreenCalls>>
  /\ UNCHANGED <<messages, chunkVars, clockVars, simplifyVars, poolVars>>

\* A caller that awaited the creation in flight resumes.
AwaiterResumes(p) ==
  /\ ro[p].pc = "awaitCreating"
  /\ createDocumentCalls[ro[p].promise] # "pending"
  /\ ro' = [ro EXCEPT ![p] =
              IF createDocumentCalls[ro[p].promise] = "fulfilled"
              THEN SendMessage(@)
              ELSE [@ EXCEPT !.pc = "rejected", !.error = "createDocument failed"]]
  /\ UNCHANGED <<creating, createDocumentCalls, documents, offscreenCalls>>
  /\ UNCHANGED <<messages, chunkVars, clockVars, simplifyVars, poolVars>>

\* handleSimplify after getSession: one summarize call on the whole content.
HandlerSessionResolved(p) ==
  /\ ro[p].pc = "getSession"
  /\ \E h \in SummarizerHandles :
       offscreenCalls' = Append(offscreenCalls,
                                [by |-> p, session |-> h, text |-> ro[p].content,
                                 state |-> "pending", result |-> Plain(0)])
  /\ ro' = [ro EXCEPT ![p].pc = "summarize"]
  /\ UNCHANGED <<creating, createDocumentCalls, documents>>
  /\ UNCHANGED <<messages, chunkVars, clockVars, simplifyVars, poolVars>>

\* getSession rejects: the listener answers {success: false, error: message}
\* and runOffscreenAI throws that message.
HandlerSessionRejected(p) ==
  /\ ro[p].pc = "getSession"
  /\ \E e \in GetSessionErrors :
       ro' = [ro EXCEPT ![p] = [@ EXCEPT !.pc = "rejected", !.error = e]]
  /\ UNCHANGED <<creating, createDocumentCalls, documents, offscreenCalls>>
  /\ UNCHANGED <<messages, chunkVars, clockVars, simplifyVars, poolVars>>

\* The call of handler p the host has not settled.
PendingCall(p) ==
  CHOOSE c \in 1..Len(offscreenCalls) :
     offscreenCalls[c].by = p /\ offscreenCalls[c].state = "pending"

\* summarize resolves: the listener answers {success: true, data: result}
\* and runOffscreenAI returns the result.
HandlerSummarized(p) ==
  /\ ro[p].pc = "summarize"
  /\ \E n \in SummaryLens :
       /\ offscreenCalls' = [offscreenCalls EXCEPT ![PendingCall(p)] =
                               [@ EXCEPT !.state = "resolved", !.result = Plain(n)]]
       /\ ro' = [ro EXCEPT ![p] = [@ EXCEPT !.pc = "done", !.result = Plain(n)]]
  /\ UNCHANGED <<creating, createDocumentCalls, documents>>
  /\ UNCHANGED <<messages, chunkVars, clockVars, simplifyVars, poolVars>>

HandlerSummarizeFailed(p) ==
  /\ ro[p].pc = "summarize"
  /\ offscreenCalls' = [offscreenCalls EXCEPT ![PendingCall(p)].state = "rejected"]
  /\ ro' = [ro EXCEPT ![p] = [@ EXCEPT !.pc = "rejected", !.error = "summarize failed"]]
  /\ UNCHANGED <<creating, createDocumentCalls, documents>>
  /\ UNCHANGED <<messages, chunkVars, clockVars, simplifyVars, poolVars>>

InitOffscreen ==
  /\ ChunkIdle
  /\ ClockIdle
  /\ SimplifyIdle
  /\ PoolIdle
  /\ creating = 0
  /\ createDocumentCalls = <<>>
  /\ documents = 0
  /\ offscreenCalls = <<>>
  /\ messages = <<>>
  /\ \E c \in OffscreenContents :
       ro = [p \in 1..NumOffscreenCallers |-> OffscreenIdleCall(c)]

NextOffscreen ==
  \/ \E p \in OffscreenCallers : RunOffscreenAI(p)
  \/ \E p \in OffscreenCallers : ContextsAnswered(p)
  \/ DocumentCreated
  \/ \E p \in OffscreenCallers : CreatorResumes(p)
  \/ \E p \in OffscreenCallers : AwaiterResumes(p)
  \/ \E p \in OffscreenCallers : HandlerSessionResolved(p)
  \/ \E p \in OffscreenCallers : HandlerSessionRejected(p)
  \/ \E p \in OffscreenCallers : HandlerSummarized(p)
  \/ \E p \in OffscreenCallers : HandlerSummarizeFailed(p)

SpecOffscreen == InitOffscreen /\ [][NextOffscreen]_vars

\* C16: whatever the interleaving of concurrent runOffscreenAI calls,
\* createDocument is called at most once, every caller that found no document
\* waits for that one call, and no message is sent before the document exists.
C16_OneCreateDocument ==
  /\ Len(createDocumentCalls) <= 1
  /\ \A p \in OffscreenCallers :
        /\ ro[p].pc \in {"awaitCreated", "awaitCreating"} =>
              ro[p].promise = 1 /\ Len(createDocumentCalls) = 1
        /\ ro[p].pc \in {"getSession", "summarize", "done"} =>
              /\ ro[p].documentAtSend
              /\ Len(createDocumentCalls) = 1
              /\ createDocumentCalls[1] = "fulfilled"
              /\ ro[p].path \in {"create", "await"} => ro[p].promise = 1

C16_Witness ==
  /\ Len(createDocumentCalls) = 1
  /\ \A p \in OffscreenCallers : ro[p].pc = "getSession"
  /\ Cardinality({p \in OffscreenCallers : ro[p].path = "create"}) = 1
  /\ Cardinality({p \in OffscreenCallers : ro[p].path = "await"}) = NumOffscreenCallers - 1

\* simplifyArticle(c, level) in process, from its call to the first await
\* after getSession has resolved to the session h.
InProcess(c, h) ==
  AfterSession([pc |-> "getSession", content |-> c, aborted |-> FALSE,
                estimatedTokens |-> estimateTokens(c), summarizer |-> h,
                chunks |-> <<>>, summaries |-> <<>>, i |-> 0, wakeAt |-> 0,
                result |-> Plain(0), error |-> ""], <<>>)

CallsOf(p) == {c \in 1..Len(offscreenCalls) : offscreenCalls[c].by = p}

\* C17: 'simplify' through runOffscreenAI issues the summarize calls that
\* simplifyArticle issues in process on the same content: one call on the
\* content when it is within the input limit, one call per chunk (and the
\* fold) when it is oversized.
C17_SameCallsAsInProcess ==
  \A p \in OffscreenCallers :
     \A c \in CallsOf(p) :
        LET inProcess == InProcess(ro[p].content, offscreenCalls[c].session)
        IN  /\ offscreenCalls[c].text = inProcess.hostCalls[1].text
            /\ ro[p].pc = "done" =>
                  IF Oversized(ro[p].content)
                  THEN Cardinality(CallsOf(p)) >= Len(inProcess.sa.chunks)
                  ELSE Cardinality(CallsOf(p)) = 1

(***************************************************************************)
(* The session pool under concurrent getSession calls                      *)
(***************************************************************************)
ManagerCreates == {c \in 1..Len(createCalls) : createCalls[c].by = "sessionManager"}

CreatesInFlight ==
  Cardinality({p \in Callers : gs[p].pc = "createWait"})
    + Cardinality({c \in lateCreates : c.by = "sessionManager"})

ManagerSessions == {h \in DOMAIN hostSessions : hostSessions[h].by = "sessionManager"}

\* C1: in every reachable state, whatever the interleaving of getSession
\* calls, the pool map holds at most MAX_SESSIONS (3) sessions.
C1_PoolWithinLimit == Len(sessions) <= MAX_SESSIONS

\* C2: any two create calls the session manager issues on the host, successful
\* or not, start at least MIN_CREATION_INTERVAL (1000 ms) apart.
C2_CreatesSpaced ==
  \A c, d \in ManagerCreates :
     c < d => createCalls[d].start - createCalls[c].start >= MIN_CREATION_INTERVAL

\* C3: pool mutations are serialized: at most one create call of the session
\* manager is in flight on the host at any time.
C3_OneCreateInFlight == CreatesInFlight <= 1

\* C4: getSession calls with the same config issued back to back, also while
\* an earlier one has not resolved, make at most one successful create call:
\* the host never holds two sessions of one key that were never destroyed.
C4_OneCreatePerConfig ==
  \A g, h \in ManagerSessions :
     (g # h /\ hostSessions[g].key = hostSessions[h].key)
        => hostSessions[g].destroyCalls > 0 \/ hostSessions[h].destroyCalls > 0

\* C5: the session manager never calls destroy on a pooled session while a
\* borrower's prompt or summarize call on that session is unresolved.
C5_NoDestroyWhileInUse ==
  \A h \in DOMAIN hostSessions : ~hostSessions[h].busyAtDestroy

\* C6: every create call and every destroy call on the host is made by the
\* session manager, so that every host session is one the pool has counted.
C6_OnlyManagerCreatesAndDestroys ==
  /\ \A c \in 1..Len(createCalls) : createCalls[c].by = "sessionManager"
  /\ \A h \in DOMAIN hostSessions :
        /\ hostSessions[h].by = "sessionManager"
        /\ hostSessions[h].destroyedBy \subseteq {"sessionManager"}

\* Every createDocument call made so far has been rejected.
AllCreationsRejected ==
  /\ Len(createDocumentCalls) > 0
  /\ \A k \in 1..Len(createDocumentCalls) : createDocumentCalls[k] = "rejected"

\* C29: when createDocument rejects, the runOffscreenAI call that made it
\* rejects, and a call made after that rejection that finds no document
\* makes a new createDocument call.
C29_FreshCreateAfterRejection ==
  [][\A p \in OffscreenCallers :
       /\ (/\ ro[p].pc = "awaitCreated"
           /\ ro'[p].pc # "awaitCreated"
           /\ createDocumentCalls[ro[p].promise] = "rejected") => ro'[p].pc = "rejected"
       /\ (/\ ro[p].pc = "getContexts"
           /\ ro'[p].pc # "getContexts"
           /\ ro[p].afterRejection
           /\ documents = 0
           /\ AllCreationsRejected) =>
              /\ Len(createDocumentCalls') = Len(createDocumentCalls) + 1
              /\ ro'[p].pc = "awaitCreated"]_vars

\* C30: within one simplifyArticle call, every summarize call after the first,
\* the call of the fold pass included, starts at least CHUNK_DELAY after the
\* call before it has settled.
C30_PauseBeforeEveryCall ==
  \A j \in 2..Len(hostCalls) :
     /\ hostCalls[j - 1].state # "pending"
     /\ hostCalls[j].start >= hostCalls[j - 1].end + CHUNK_DELAY

(***************************************************************************)
(* The runtime.onMessage listeners of the background worker and of the     *)
(* offscreen document.  A message sent with runtime.sendMessage is handed  *)
(* to the listener of every other context of the extension; the sender     *)
(* gets the first response any of them sends, later ones are dropped.      *)
(***************************************************************************)
NumMessages == 1

\* The actions the offscreen document handles, the actions the background
\* listener answers later, and the actions sent in the code.
AIActions == {"simplify", "chat", "generate"}
AsyncBackgroundActions ==
  {"simplifyText", "applyDisplaySettings", "simplifyArticle", "saveArticle",
   "getActiveTabContent"}
BackgroundActions == AsyncBackgroundActions \cup {"openSidePanel"}
MessageActions == AIActions \cup BackgroundActions \cup {"sidebarOpened"}

NoResponse == [by |-> "nobody", success |-> FALSE, error |-> ""]

UnsentMessage ==
  [pc |-> "unsent", action |-> "", from |-> "", background |-> "none",
   offscreen |-> "none", response |-> NoResponse]

\* sendResponse(...) of listener `by` on message m: the port carries one
\* response.
SendResponse(m, by, success, error) ==
  IF m.response.by = "nobody"
  THEN [m EXCEPT !.response = [by |-> by, success |-> success, error |-> error]]
  ELSE m

\* handleAIOperation(message): the handler's result, or what it throws.
HandleAIOperation(action, ok) ==
  IF action \in AIActions
  THEN [success |-> ok, error |-> IF ok THEN "" ELSE "AI error"]
  ELSE [success |-> FALSE, error |-> "Unknown action"]

\* chrome.runtime.sendMessage({action, ...}) from the background worker or
\* from a page of the extension (content script, popup, side panel).
RuntimeSendMessage(i) ==
  /\ messages[i].pc = "unsent"
  /\ \E a \in MessageActions : \E from \in {"background", "page"} :
       messages' = [messages EXCEPT ![i] =
                      [@ EXCEPT !.pc = "sent", !.action = a, !.from = from,
                                !.background = IF from = "background" THEN "none" ELSE "delivered",
                                !.offscreen = IF documents > 0 THEN "delivered" ELSE "none"]]
  /\ UNCHANGED <<creating, ro, createDocumentCalls, documents, offscreenCalls>>
  /\ UNCHANGED <<chunkVars, clockVars, simplifyVars, poolVars>>

\* The background listener runs: openSidePanel is answered at once, the
\* other actions it knows return true and answer later, the rest is logged.
BackgroundListener(i) ==
  /\ messages[i].background = "delivered"
  /\ \E windowId \in BOOLEAN :
       messages' = [messages EXCEPT ![i] =
                      IF @.action = "openSidePanel"
                      THEN [SendResponse(@, "background", windowId,
                                         IF windowId THEN "" ELSE "No window ID available")
                              EXCEPT !.background = "answered"]
                      ELSE IF @.action \in AsyncBackgroundActions
                      THEN [@ EXCEPT !.background = "open"]
                      ELSE [@ EXCEPT !.background = "closed"]]
  /\ UNCHANGED <<creating, ro, createDocumentCalls, documents, offscreenCalls>>
  /\ UNCHANGED <<chunkVars, clockVars, simplifyVars, poolVars>>

\* The work the background listener started settles and calls sendResponse.
BackgroundResponds(i) ==
  /\ messages[i].background = "open"
  /\ \E ok \in BOOLEAN :
       messages' = [messages EXCEPT ![i] =
                      [SendResponse(@, "background", ok, IF ok THEN "" ELSE "error")
                         EXCEPT !.background = "answered"]]
  /\ UNCHANGED <<creating, ro, createDocumentCalls, documents, offscreenCalls>>
  /\ UNCHANGED <<chunkVars, clockVars, simplifyVars, poolVars>>

\* The offscreen listener runs: it calls handleAIOperation and returns true.
OffscreenListener(i) ==
  /\ messages[i].offscreen = "delivered"
  /\ messages' = [messages EXCEPT ![i] = [@ EXCEPT !.offscreen = "open"]]
  /\ UNCHANGED <<creating, ro, createDocumentCalls, documents, offscreenCalls>>
  /\ UNCHANGED <<chunkVars, clockVars, simplifyVars, poolVars>>

\* The promise of handleAIOperation settles: .then or .catch calls sendResponse.
OffscreenResponds(i) ==
  /\ messages[i].offscreen = "open"
  /\ \E ok \in BOOLEAN :
       LET r == HandleAIOperation(messages[i].action, ok)
       IN  messages' = [messages EXCEPT ![i] =
                          [SendResponse(@, "offscreen", r.success, r.error)
                             EXCEPT !.offscreen = "answered"]]
  /\ UNCHANGED <<creating, ro, createDocumentCalls, documents, offscreenCalls>>
  /\ UNCHANGED <<chunkVars, clockVars, simplifyVars, poolVars>>

\* The messages to come, with or without an offscreen document.
InitListeners ==
  /\ ChunkIdle
  /\ ClockIdle
  /\ SimplifyIdle
  /\ PoolIdle
  /\ creating = 0
  /\ ro = <<>>
  /\ createDocumentCalls = <<>>
  /\ documents \in {0, 1}
  /\ offscreenCalls = <<>>
  /\ messages = [i \in 1..NumMessages |-> UnsentMessage]

NextListeners ==
  \/ \E i \in DOMAIN messages : RuntimeSendMessage(i)
  \/ \E i \in DOMAIN messages : BackgroundListener(i)
  \/ \E i \in DOMAIN messages : BackgroundResponds(i)
  \/ \E i \in DOMAIN messages : OffscreenListener(i)
  \/ \E i \in DOMAIN messages : OffscreenResponds(i)

SpecListeners == InitListeners /\ [][NextListeners]_vars

\* C28: the offscreen listener sends a response only to 'simplify', 'chat'
\* and 'generate'; a message with an action of the background listener is
\* left unanswered by it, so its sender gets the background's response.
C28_OffscreenAnswersOnlyItsActions ==
  \A i \in DOMAIN messages :
     /\ messages[i].offscreen = "answered" => messages[i].action \in AIActions
     /\ (messages[i].action \in BackgroundActions /\ messages[i].response.by # "nobody") =>
           messages[i].response.by = "background"

====
